---- MODULE Spec2Model ----
(***************************************************************************)
(* A model of the Flet Algebra graphing calculator: the GraphState record, *)
(* the CoordinateSystem control (pan / zoom / reset handlers, redraw and   *)
(* _draw_graph), the FunctionGraph utilities (evaluate, create_path) and   *)
(* the function panel of GraphingApp.                                      *)
(*                                                                         *)
(* Numbers.  The program computes with binary floating point (Python float *)
(* and numpy.float64).  The model keeps the structure of that arithmetic   *)
(* at a reduced width: a finite float is an integer count of quanta of     *)
(* 2^-FracBits, it carries at most MantBits significant bits, every        *)
(* operation rounds its exact result to the nearest such number (ties to   *)
(* even), results beyond MaxFinite become an infinity and invalid          *)
(* operations produce NaN.                                                 *)
(***************************************************************************)
EXTENDS Integers, Sequences, FiniteSets, TLC

----------------------------------------------------------------------------
(* Floating point at reduced width *)

\* significant bits of a float
MantBits == 5
\* binary digits after the point of the smallest positive float
FracBits == 6
\* number of binades above the first one
ExpRange == 12

Pow2(n) == 2 ^ n
One == Pow2(FracBits)
MaxFinite == (Pow2(MantBits) - 1) * Pow2(ExpRange)
Inf == Pow2(MantBits + ExpRange)
NaN == Inf + 1

Abs(n) == IF n < 0 THEN -n ELSE n
Sign(n) == IF n < 0 THEN -1 ELSE 1
IsNaN(a) == a = NaN
IsFinite(a) == Abs(a) <= MaxFinite

\* a / b rounded to the nearest integer, ties to the even one (a >= 0, b > 0)
RoundHalfEven(a, b) ==
    LET q == a \div b
        r == a % b
    IN  IF 2 * r > b \/ (2 * r = b /\ q % 2 = 1) THEN q + 1 ELSE q

\* the least shift s at which a / d has at most MantBits bits, or ExpRange + 1
RECURSIVE ShiftOf(_, _, _)
ShiftOf(a, d, s) ==
    IF s > ExpRange \/ a \div d < Pow2(MantBits + s) THEN s
    ELSE ShiftOf(a, d, s + 1)

\* the exact rational n / d (in quanta, d > 0) rounded to a float
RN(n, d) ==
    LET a == Abs(n)
        s == ShiftOf(a, d, 0)
    IN  IF s > ExpRange THEN Sign(n) * Inf
        ELSE LET r == RoundHalfEven(a, d * Pow2(s)) * Pow2(s)
             IN  IF r > MaxFinite THEN Sign(n) * Inf ELSE Sign(n) * r

\* the number of trailing zero bits of a finite float a # 0
RECURSIVE Tz(_)
Tz(a) == IF a % 2 # 0 THEN 0 ELSE 1 + Tz(a \div 2)

\* the exact value m * 2^e (in quanta) rounded to a float
RNShift(m, e) ==
    IF e < 0 THEN RN(m, Pow2(-e))
    ELSE IF e > MantBits + ExpRange \/ Abs(m) >= Pow2(MantBits + ExpRange - e)
         THEN (IF m = 0 THEN 0 ELSE Sign(m) * Inf)
    ELSE RN(m * Pow2(e), 1)

\* int -> float
FromInt(i) == RNShift(i, FracBits)
\* the float nearest to the decimal literal n / 10
Tenths(n) == RN(n * One, 10)

FNeg(a) == IF IsNaN(a) THEN NaN ELSE -a

FAdd(a, b) ==
    IF IsNaN(a) \/ IsNaN(b) THEN NaN
    ELSE IF Abs(a) = Inf /\ Abs(b) = Inf THEN (IF a = b THEN a ELSE NaN)
    ELSE IF Abs(a) = Inf THEN a
    ELSE IF Abs(b) = Inf THEN b
    ELSE RN(a + b, 1)

FSub(a, b) == FAdd(a, FNeg(b))

FMul(a, b) ==
    IF IsNaN(a) \/ IsNaN(b) THEN NaN
    ELSE IF Abs(a) = Inf \/ Abs(b) = Inf
         THEN (IF a = 0 \/ b = 0 THEN NaN ELSE Sign(a) * Sign(b) * Inf)
    ELSE IF a = 0 \/ b = 0 THEN 0
    ELSE RNShift((a \div Pow2(Tz(a))) * (b \div Pow2(Tz(b))),
                 Tz(a) + Tz(b) - FracBits)

\* a / b for b # 0 (what a zero divisor does depends on the operand types
\* and is decided where the division is made)
FDiv(a, b) ==
    IF IsNaN(a) \/ IsNaN(b) THEN NaN
    ELSE IF Abs(a) = Inf /\ Abs(b) = Inf THEN NaN
    ELSE IF Abs(a) = Inf THEN Sign(a) * Sign(b) * Inf
    ELSE IF Abs(b) = Inf \/ a = 0 THEN 0
    ELSE LET ma == a \div Pow2(Tz(a))
             mb == Abs(b) \div Pow2(Tz(b))
             e  == Tz(a) + FracBits - Tz(b)
         IN  IF e >= 0
             THEN RN(Sign(b) * ma * Pow2(e), mb)
             ELSE RN(Sign(b) * ma, mb * Pow2(-e))

\* int / int (true division): the exact quotient rounded once
IntDiv(i, j) == RN(Sign(j) * i * One, Abs(j))

\* the square root of a finite float a > 0, correctly rounded
FSqrtPos(a) ==
    LET n == a * One
        s == CHOOSE t \in 0..ExpRange :
                 /\ n < Pow2(2 * (MantBits + t))
                 /\ \A u \in 0..(t - 1) : n >= Pow2(2 * (MantBits + u))
        q == Pow2(2 * s)
        m == CHOOSE k \in 0..Pow2(MantBits) : k * k * q <= n /\ n < (k + 1) * (k + 1) * q
        mid == (2 * m + 1) * (2 * m + 1) * q
        up == 4 * n > mid \/ (4 * n = mid /\ m % 2 = 1)
    IN  (IF up THEN m + 1 ELSE m) * Pow2(s)

\* numpy.sqrt of a float64: NaN (and a warning, no exception) below zero
FSqrt(a) ==
    IF IsNaN(a) \/ a < 0 THEN NaN
    ELSE IF a = 0 \/ a = Inf THEN a
    ELSE FSqrtPos(a)

\* float64 / float64 in numpy: a zero divisor gives inf or NaN, no exception
NpDiv(a, b) ==
    IF b # 0 THEN FDiv(a, b)
    ELSE IF IsNaN(a) \/ a = 0 THEN NaN
    ELSE Sign(a) * Inf

FLt(a, b) == ~IsNaN(a) /\ ~IsNaN(b) /\ a < b
FLe(a, b) == ~IsNaN(a) /\ ~IsNaN(b) /\ a <= b


----------------------------------------------------------------------------
(* Program constants *)

DefaultScale == 50
PanStep == 30
ZoomInTenths == 12
ZoomOutTenths == 8
ScrollInTenths == 11
ScrollOutTenths == 9
WindowWidth == 1200
WindowHeight == 800

\* the float constants of the handlers
PanStepF == FromInt(PanStep)
ZoomInFactor == Tenths(ZoomInTenths)
ZoomOutFactor == Tenths(ZoomOutTenths)
ScrollInFactor == Tenths(ScrollInTenths)
ScrollOutFactor == Tenths(ScrollOutTenths)
DefaultScaleF == FromInt(DefaultScale)

\* the attributes a GraphState instance has
StateFields ==
    {"scale", "offset_x", "offset_y", "expr", "expressions", "show_minor_grid"}

\* GraphState(), with expressions as _create_controls_stack sets them
GraphState ==
    [scale |-> DefaultScaleF, offset_x |-> 0, offset_y |-> 0,
     expressions |-> <<"x**2">>, show_minor_grid |-> TRUE]

----------------------------------------------------------------------------
(* Bounds of the model *)

\* pan buttons and drags are explored while |offset| stays within this many pixels
MaxOffset == 30
\* rows of the function panel
MaxRows == 2

\* samples handed to evaluate in one call (the renderer hands NumSamples)
MaxSamples == 3

\* scroll_delta_y of a scroll event
ScrollDeltas == {-1, 0, 1}
\* local_delta of a drag update, coarse (view specification)
DragDeltas == {<<FromInt(15), FromInt(15)>>, <<FromInt(-15), FromInt(-15)>>}
\* local_delta of a drag update, with fractions of a pixel (pan specification)
FineDragDeltas == {<<One \div 4, 0>>, <<-(One \div 4), 0>>}
\* what the user can type into a row of the function panel
Texts == {"", "x**2", "np.sqrt(x)", "sqrt(x)"}
\* the expressions handed to evaluate
Expressions == {"x**2", "np.sqrt(x)", "sqrt(x)", "1/x", "x if x > 0 else u", "x +"}
\* the sample values handed to evaluate
SampleValues == {FromInt(-1), 0, FromInt(1), FromInt(4)}
\* the scales, offsets, viewports and points handed to to_screen
SampleScales ==
    {DefaultScaleF, FMul(DefaultScaleF, ZoomInFactor), FMul(DefaultScaleF, ZoomOutFactor),
     FMul(DefaultScaleF, ScrollOutFactor), FromInt(5), Inf}
SampleOffsets == {0, PanStepF, -PanStepF}
Viewports == {<<WindowWidth, WindowHeight>>, <<64, 48>>}
SamplePoints == {FromInt(-2), FromInt(-1), -(One \div 4), 0, One \div 4, FromInt(1), FromInt(2)}
\* the sequences of at most n elements of S
SeqsUpTo(S, n) == UNION {[1..k -> S] : k \in 0..n}

----------------------------------------------------------------------------
(* State *)

VARIABLES
    state,          \* CoordinateSystem.state : GraphState
    is_dragging,    \* CoordinateSystem._is_dragging
    first_draw,     \* CoordinateSystem._first_draw
    shapes,         \* CoordinateSystem.canvas.shapes
    console,        \* what the last redraw did: "none", "drawn", "silent", "printed"
    mounted,        \* did_mount has run
    window,         \* page.window.width, page.window.height
    checkmark_visible, \* checkmark_icon.visible of the Toggle Grid menu item
    rows,           \* functions_list.controls: the text of each row's TextField,
                    \* and with it the texts the row has submitted so far
    last,           \* the handler that ran last
    call            \* the last application of a pure function (pure specifications)

vars == <<state, is_dragging, first_draw, shapes, console, mounted, window,
          checkmark_visible, rows, last, call>>

----------------------------------------------------------------------------
(* FunctionGraph.evaluate: eval(expr, {"x": x, "np": np, "__builtins__": {}}) *)

\* the names the globals of eval bind
Namespace == {"x", "np"}

Name(id) == [k |-> "name", id |-> id]
Num(i) == [k |-> "num", v |-> i]

\* the syntax tree Python compiles an expression string to
Parse(expr) ==
    CASE expr = "x**2" -> [k |-> "pow", l |-> Name("x"), r |-> Num(2)]
      [] expr = "np.sqrt(x)" ->
            [k |-> "call", fn |-> [k |-> "attr", obj |-> Name("np"), attr |-> "sqrt"],
             arg |-> Name("x")]
      [] expr = "sqrt(x)" -> [k |-> "call", fn |-> Name("sqrt"), arg |-> Name("x")]
      [] expr = "1/x" -> [k |-> "div", l |-> Num(1), r |-> Name("x")]
      [] expr = "x if x > 0 else u" ->
            [k |-> "ifexp", l |-> Name("x"), r |-> Num(0),
             body |-> Name("x"), orelse |-> Name("u")]
      [] OTHER -> [k |-> "syntax_error"]

Raised == [raised |-> TRUE, v |-> 0]
Value(v) == [raised |-> FALSE, v |-> v]

\* the value of a syntax tree at the float64 sample x, or the exception;
\* a name is looked up in the globals, whose only number is x
RECURSIVE EvalNode(_, _)
EvalNode(node, x) ==
    CASE node.k = "syntax_error" -> Raised
      [] node.k = "num" -> Value(FromInt(node.v))
      [] node.k = "name" ->
            IF node.id = "x" /\ "x" \in Namespace THEN Value(x) ELSE Raised
      [] node.k = "pow" ->
            LET l == EvalNode(node.l, x)
            IN  IF l.raised \/ node.r # Num(2) THEN Raised ELSE Value(FMul(l.v, l.v))
      [] node.k = "div" ->
            LET l == EvalNode(node.l, x)
                r == EvalNode(node.r, x)
            IN  IF l.raised \/ r.raised THEN Raised ELSE Value(NpDiv(l.v, r.v))
      [] node.k = "ifexp" ->
            LET l == EvalNode(node.l, x)
                r == EvalNode(node.r, x)
            IN  IF l.raised \/ r.raised THEN Raised
                ELSE IF FLt(r.v, l.v) THEN EvalNode(node.body, x)
                ELSE EvalNode(node.orelse, x)
      [] node.k = "call" ->
            LET arg == EvalNode(node.arg, x)
            IN  IF node.fn.k = "attr"
                THEN (IF node.fn.obj.id \in Namespace /\ node.fn.obj.id = "np"
                         /\ node.fn.attr = "sqrt" /\ ~arg.raised
                      THEN Value(FSqrt(arg.v)) ELSE Raised)
                ELSE Raised   \* NameError, or TypeError: x and np are not callable

PyEval(expr, x) == EvalNode(Parse(expr), x)

\* an evaluate that gives up on the batch at the first exception
evaluate_aborts(expr, x_vals) ==
    LET ok(i) == \A j \in 1..i : ~PyEval(expr, x_vals[j]).raised
    IN  [i \in {j \in 1..Len(x_vals) : ok(j)} |-> PyEval(expr, x_vals[i]).v]

\* evaluate: y_vals, one entry per sample in order; NaN where eval raised
evaluate(expr, x_vals) ==
    [i \in 1..Len(x_vals) |->
        LET y == PyEval(expr, x_vals[i])
        IN  IF y.raised THEN NaN ELSE y.v]

----------------------------------------------------------------------------
(* CoordinateSystem: drawing *)

\* a to_screen whose screen y grows with the math y
to_screen_y_grows(st, win, x, y) ==
    <<FAdd(FAdd(IntDiv(win[1], 2), st.offset_x), FMul(x, st.scale)),
      FAdd(FAdd(IntDiv(win[2], 2), st.offset_y), FMul(y, st.scale))>>

\* to_screen: math coordinates to screen coordinates
to_screen(st, win, x, y) ==
    <<FAdd(FAdd(IntDiv(win[1], 2), st.offset_x), FMul(x, st.scale)),
      FSub(FAdd(IntDiv(win[2], 2), st.offset_y), FMul(y, st.scale))>>

\* create_path: one element for every sample that is not NaN, in order;
\* first_valid holds up to the first of them, which gets the MoveTo, and
\* every later one gets a LineTo (each element records its sample's index)
create_path(st, win, x_vals, y_vals) ==
    LET valid == SelectSeq([i \in 1..Len(x_vals) |-> i], LAMBDA i : ~IsNaN(y_vals[i]))
    IN  [j \in 1..Len(valid) |->
            LET p == to_screen(st, win, x_vals[valid[j]], y_vals[valid[j]])
            IN  [t |-> IF j = 1 THEN "MoveTo" ELSE "LineTo",
                 x |-> p[1], y |-> p[2], i |-> valid[j]]]

\* pixels wanted between two axis labels
target_label_spacing == 80

\* the values label_interval takes in the loop, up to n: 2, 5, 10, then +10
LabelIntervals(n) == {i \in 2..n : i \in {2, 5} \/ i % 10 = 0}

\* the first values of label_interval that are beyond the largest float
MaxLabelInterval == (Inf \div One) + 10

\* every value label_interval can take before int * float overflows
AllLabelIntervals == LabelIntervals(MaxLabelInterval)

\* the while loop of the label interval: it leaves at the first value whose
\* spacing is not below the target; int * float converts the int, which
\* raises OverflowError at the first value beyond the largest float
label_interval_loop(scale) ==
    LET leaves(i) ==
            \/ FromInt(i) = Inf
            \/ ~FLt(FMul(FromInt(i), scale), FromInt(target_label_spacing))
        i == CHOOSE j \in AllLabelIntervals :
                 /\ leaves(j)
                 /\ \A k \in LabelIntervals(j - 1) : ~leaves(k)
    IN  [raised |-> FromInt(i) = Inf, label_interval |-> i]

label_interval_of(st) == label_interval_loop(st.scale)

\* samples of a curve
NumSamples == 400
\* pixels beyond the canvas edge within which a line is still drawn
CullMargin == 10
arrow_size == 10
\* half the length of a tick mark
TickHalf == 5
\* entries of the colour palette of the curves
NumColors == 5

\* an int as a coordinate (exact)
IntQ(i) == i * One
\* int(np.floor(a)) and int(np.ceil(a)) of a finite float
FloorInt(a) == a \div One
CeilInt(a) == -((-a) \div One)

\* np.arange(a, b, step) on ints
arange(a, b, step) ==
    [k \in 1..(IF b > a THEN (b - a + step - 1) \div step ELSE 0) |-> a + (k - 1) * step]

\* np.linspace(start, stop, num) for num > 1
linspace(start, stop, num) ==
    LET div == FromInt(num - 1)
        delta == FSub(stop, start)
        step == FDiv(delta, div)
    IN  [k \in 1..num |->
            IF k = num THEN stop
            ELSE IF step = 0
            THEN FAdd(FMul(FDiv(FromInt(k - 1), div), delta), start)
            ELSE FAdd(FMul(FromInt(k - 1), step), start)]

\* -10 <= s <= extent + 10, a float compared with ints
InCull(s, extent) ==
    ~IsNaN(s) /\ IntQ(-CullMargin) <= s /\ s <= IntQ(extent + CullMargin)

Line(x1, y1, x2, y2, paint) ==
    [shape |-> "Line", x1 |-> x1, y1 |-> y1, x2 |-> x2, y2 |-> y2, paint |-> paint]
Text(x, y, text) == [shape |-> "Text", x |-> x, y |-> y, text |-> text]
PathShape(elements, paint, color) ==
    [shape |-> "Path", elements |-> elements, paint |-> paint, color |-> color]
PathTo(t, x, y) == [t |-> t, x |-> x, y |-> y, i |-> 0]

\* a variant of the visible range with the sign of the offsets exchanged
visible_range_offsets_exchanged(st, win) ==
    [x_min |-> FDiv(FNeg(FSub(IntDiv(win[1], 2), st.offset_x)), st.scale),
     x_max |-> FDiv(FAdd(IntDiv(win[1], 2), st.offset_x), st.scale),
     y_min |-> FDiv(FNeg(FAdd(IntDiv(win[2], 2), st.offset_y)), st.scale),
     y_max |-> FDiv(FSub(IntDiv(win[2], 2), st.offset_y), st.scale)]

\* the visible range in math coordinates
visible_range(st, win) ==
    [x_min |-> FDiv(FNeg(FAdd(IntDiv(win[1], 2), st.offset_x)), st.scale),
     x_max |-> FDiv(FSub(IntDiv(win[1], 2), st.offset_x), st.scale),
     y_min |-> FDiv(FNeg(FSub(IntDiv(win[2], 2), st.offset_y)), st.scale),
     y_max |-> FDiv(FAdd(IntDiv(win[2], 2), st.offset_y), st.scale)]

\* the x of xs whose vertical line passes the culling test
visible_xs(st, win, xs) ==
    SelectSeq(xs, LAMBDA x : InCull(to_screen(st, win, FromInt(x), 0)[1], win[1]))

\* the y of ys whose horizontal line passes the culling test
visible_ys(st, win, ys) ==
    SelectSeq(ys, LAMBDA y : InCull(to_screen(st, win, 0, FromInt(y))[2], win[2]))

\* the vertical lines at the x of xs that pass the culling test
vertical_lines(st, win, xs, paint) ==
    LET sx(x) == to_screen(st, win, FromInt(x), 0)[1]
        kept == visible_xs(st, win, xs)
    IN  [k \in 1..Len(kept) |-> Line(sx(kept[k]), 0, sx(kept[k]), IntQ(win[2]), paint)]

\* the horizontal lines at the y of ys that pass the culling test
horizontal_lines(st, win, ys, paint) ==
    LET sy(y) == to_screen(st, win, 0, FromInt(y))[2]
        kept == visible_ys(st, win, ys)
    IN  [k \in 1..Len(kept) |-> Line(0, sy(kept[k]), IntQ(win[1]), sy(kept[k]), paint)]

\* the visible range padded by one unit on each side
padded_range(v) ==
    [x_min |-> FloorInt(v.x_min) - 1,
     x_max |-> CeilInt(v.x_max) + 1,
     y_min |-> FloorInt(v.y_min) - 1,
     y_max |-> CeilInt(v.y_max) + 1]

\* the coordinates of the major grid between lo and hi: every 2 units from lo
major_coords(lo, hi) == arange(lo, hi + 1, 2)

\* the coordinates of the minor grid between lo and hi: those with x % 2 != 0
minor_coords(lo, hi) == SelectSeq(arange(lo, hi + 1, 1), LAMBDA x : x % 2 # 0)

\* major grid every 2 units from the padded range, then the minor grid at
\* the odd integers if it is enabled
grid_lines(st, win, v) ==
    LET p == padded_range(v)
    IN  vertical_lines(st, win, major_coords(p.x_min, p.x_max), "grid_pen")
        \o horizontal_lines(st, win, major_coords(p.y_min, p.y_max), "grid_pen")
        \o (IF st.show_minor_grid
            THEN vertical_lines(st, win, minor_coords(p.x_min, p.x_max),
                                "minor_grid_pen")
                 \o horizontal_lines(st, win, minor_coords(p.y_min, p.y_max),
                                     "minor_grid_pen")
            ELSE <<>>)

\* the two axes, their arrows and the labels x, y and 0
axes(st, win) ==
    LET c == to_screen(st, win, 0, 0)
        cx == c[1]
        cy == c[2]
        x_arrow_x == win[1] - 10
        y_arrow_y == 2
        half == FromInt(arrow_size \div 2)
    IN  <<Line(0, cy, IntQ(win[1]), cy, "axis_pen"),
          Line(cx, 0, cx, IntQ(win[2]), "axis_pen"),
          PathShape(<<PathTo("MoveTo", IntQ(x_arrow_x - arrow_size), FSub(cy, half)),
                      PathTo("LineTo", IntQ(x_arrow_x), cy),
                      PathTo("LineTo", IntQ(x_arrow_x - arrow_size), FAdd(cy, half))>>,
                    "arrow_paint", "axis"),
          PathShape(<<PathTo("MoveTo", FSub(cx, half), IntQ(y_arrow_y + arrow_size)),
                      PathTo("LineTo", cx, IntQ(y_arrow_y)),
                      PathTo("LineTo", FAdd(cx, half), IntQ(y_arrow_y + arrow_size))>>,
                    "arrow_paint", "axis"),
          Text(IntQ(x_arrow_x - arrow_size - 15), FSub(cy, FromInt(15)), "x"),
          Text(FAdd(cx, FromInt(5)), IntQ(y_arrow_y - 10), "y"),
          Text(FSub(cx, FromInt(10)), FAdd(cy, FromInt(10)), "0")>>

\* np.floor(a / label_interval) * label_interval and the same with np.ceil,
\* before the conversion to int
tick_floor(a, label_interval) ==
    LET q == FDiv(a, FromInt(label_interval))
    IN  IF IsFinite(q) THEN FMul(IntQ(FloorInt(q)), FromInt(label_interval)) ELSE q
tick_ceil(a, label_interval) ==
    LET q == FDiv(a, FromInt(label_interval))
    IN  IF IsFinite(q) THEN FMul(IntQ(CeilInt(q)), FromInt(label_interval)) ELSE q

\* a tick mark and its number at every multiple of the label interval but 0
ticks(st, win, v, label_interval) ==
    LET c == to_screen(st, win, 0, 0)
        cx == c[1]
        cy == c[2]
        five == FromInt(TickHalf)
        nonzero(xs) == SelectSeq(xs, LAMBDA x : x # 0)
        sx(x) == to_screen(st, win, FromInt(x), 0)[1]
        sy(y) == to_screen(st, win, 0, FromInt(y))[2]
        xs == SelectSeq(nonzero(arange(FloorInt(tick_floor(v.x_min, label_interval)),
                                       FloorInt(tick_ceil(v.x_max, label_interval)) + 1,
                                       label_interval)),
                        LAMBDA x : InCull(sx(x), win[1]))
        ys == SelectSeq(nonzero(arange(FloorInt(tick_floor(v.y_min, label_interval)),
                                       FloorInt(tick_ceil(v.y_max, label_interval)) + 1,
                                       label_interval)),
                        LAMBDA y : InCull(sy(y), win[2]))
    IN  [k \in 1..(2 * Len(xs)) |->
            LET x == xs[(k + 1) \div 2]
            IN  IF k % 2 = 1
                THEN Line(sx(x), FSub(cy, five), sx(x), FAdd(cy, five), "tick_paint")
                ELSE Text(FSub(sx(x), five), FAdd(cy, FromInt(10)), ToString(x))]
        \o
        [k \in 1..(2 * Len(ys)) |->
            LET y == ys[(k + 1) \div 2]
            IN  IF k % 2 = 1
                THEN Line(FSub(cx, five), sy(y), FAdd(cx, five), sy(y), "tick_paint")
                ELSE Text(FSub(cx, FromInt(20)), FAdd(sy(y), five), ToString(y))]

\* _draw_function: the curve of one expression, if it has any element
draw_function(st, win, expr, x_min, x_max, color) ==
    LET x_vals == linspace(x_min, x_max, NumSamples)
        y_vals == evaluate(expr, x_vals)
        path_elements == create_path(st, win, x_vals, y_vals)
    IN  IF path_elements # <<>>
        THEN <<PathShape(path_elements, "curve_paint", color)>>
        ELSE <<>>

\* _draw_functions: the curves of expressions i, i + 1, ... in order, each
\* in the colour of its position in the palette
RECURSIVE draw_functions_from(_, _, _, _, _)
draw_functions_from(st, win, i, x_min, x_max) ==
    IF i > Len(st.expressions) THEN <<>>
    ELSE draw_function(st, win, st.expressions[i], x_min, x_max, (i - 1) % NumColors)
         \o draw_functions_from(st, win, i + 1, x_min, x_max)

\* the rest of _draw_graph, from the visible range on: what the method
\* builds once its colours are chosen
draw_graph_body(st, win, skip_function) ==
    LET v == visible_range(st, win)
        l == label_interval_of(st)
        finite(a) == IsFinite(a)
        li == l.label_interval
    IN  IF \/ st.scale = 0
           \/ ~(finite(v.x_min) /\ finite(v.x_max) /\ finite(v.y_min) /\ finite(v.y_max))
           \/ l.raised
           \/ ~finite(tick_floor(v.x_min, li)) \/ ~finite(tick_ceil(v.x_max, li))
           \/ ~finite(tick_floor(v.y_min, li)) \/ ~finite(tick_ceil(v.y_max, li))
        THEN [raised |-> TRUE, shapes |-> <<>>]
        ELSE [raised |-> FALSE,
              shapes |-> grid_lines(st, win, v) \o axes(st, win)
                         \o ticks(st, win, v, li)
                         \o (IF skip_function THEN <<>>
                             ELSE draw_functions_from(st, win, 1, v.x_min, v.x_max))]

\* _draw_graph as it runs: its first statement after the empty list is
\* `if self.state.dark_mode:`, and GraphState has no attribute dark_mode
\* (StateFields), so the call ends there in AttributeError with no shape
\* built and draw_graph_body is never run
draw_graph(st, win, skip_function) == [raised |-> TRUE, shapes |-> <<>>]

\* redraw: the new (canvas.shapes, _first_draw, console); every caller runs
\* once the control is on the page, so that canvas.update() does not raise
redraw(st, skip_function) ==
    LET g == draw_graph(st, window, skip_function)
    IN  IF g.raised
        THEN /\ shapes' = shapes
             /\ first_draw' = FALSE
             /\ console' = IF first_draw THEN "silent" ELSE "printed"
        ELSE /\ shapes' = g.shapes
             /\ first_draw' = first_draw
             /\ console' = "drawn"

----------------------------------------------------------------------------
(* CoordinateSystem: handlers *)

\* a pan that treats the vertical delta like the horizontal one
panBy_same_sign(st, dx, dy) ==
    [st EXCEPT !.offset_x = FAdd(@, dx), !.offset_y = FAdd(@, Abs(dy))]

panBy(st, dx, dy) ==
    [st EXCEPT !.offset_x = FAdd(@, dx), !.offset_y = FAdd(@, dy)]

\* a zoom that subtracts instead of scaling
zoomBy_subtracts(st, factor) == [st EXCEPT !.scale = FSub(@, factor)]

\* a zoom that also moves the view back to the centre
zoomBy_recentres(st, factor) ==
    [st EXCEPT !.scale = FMul(@, factor), !.offset_x = 0, !.offset_y = 0]

zoomBy(st, factor) == [st EXCEPT !.scale = FMul(@, factor)]

MaxOffsetF == FromInt(MaxOffset)
WithinPan(st) == Abs(st.offset_x) <= MaxOffsetF /\ Abs(st.offset_y) <= MaxOffsetF

did_mount ==
    /\ ~mounted
    /\ mounted' = TRUE
    /\ redraw(state, FALSE)
    /\ last' = "did_mount"
    /\ UNCHANGED <<state, is_dragging, window, checkmark_visible, rows, call>>

handle_pan_start ==
    /\ mounted
    /\ is_dragging' = TRUE
    /\ last' = "pan_start"
    /\ UNCHANGED <<state, first_draw, shapes, console, mounted, window,
                   checkmark_visible, rows, call>>

handle_pan_update(dx, dy) ==
    /\ mounted /\ is_dragging
    /\ LET st == panBy(state, dx, dy)
       IN  WithinPan(st) /\ state' = st
    /\ redraw(state', TRUE)
    /\ last' = "pan_update"
    /\ UNCHANGED <<is_dragging, mounted, window, checkmark_visible, rows, call>>

handle_pan_end ==
    /\ mounted /\ is_dragging
    /\ is_dragging' = FALSE
    /\ redraw(state, FALSE)
    /\ last' = "pan_end"
    /\ UNCHANGED <<state, mounted, window, checkmark_visible, rows, call>>

handle_scroll(scroll_delta_y) ==
    /\ mounted
    /\ state' = zoomBy(state, IF scroll_delta_y < 0 THEN ScrollInFactor
                                                    ELSE ScrollOutFactor)
    /\ redraw(state', FALSE)
    /\ last' = "scroll"
    /\ UNCHANGED <<is_dragging, mounted, window, checkmark_visible, rows, call>>

PanButton(name, dx, dy) ==
    /\ mounted
    /\ LET st == panBy(state, dx, dy)
       IN  WithinPan(st) /\ state' = st
    /\ redraw(state', FALSE)
    /\ last' = name
    /\ UNCHANGED <<is_dragging, mounted, window, checkmark_visible, rows, call>>

pan_up == PanButton("pan_up", 0, PanStepF)
pan_down == PanButton("pan_down", 0, -PanStepF)
pan_left == PanButton("pan_left", -PanStepF, 0)
pan_right == PanButton("pan_right", PanStepF, 0)

ZoomButton(name, factor) ==
    /\ mounted
    /\ state' = zoomBy(state, factor)
    /\ redraw(state', FALSE)
    /\ last' = name
    /\ UNCHANGED <<is_dragging, mounted, window, checkmark_visible, rows, call>>

zoom_in == ZoomButton("zoom_in", ZoomInFactor)
zoom_out == ZoomButton("zoom_out", ZoomOutFactor)

\* a reset that forgets the vertical offset
reset_keeps_offset_y(st) ==
    [st EXCEPT !.scale = DefaultScaleF, !.offset_x = 0]

reset(st) ==
    [st EXCEPT !.scale = DefaultScaleF, !.offset_x = 0, !.offset_y = 0]

reset_view ==
    /\ mounted
    /\ state' = reset(state)
    /\ redraw(state', FALSE)
    /\ last' = "reset_view"
    /\ UNCHANGED <<is_dragging, mounted, window, checkmark_visible, rows, call>>

\* a toggle that leaves the checkmark as it is
grid_toggle_keeps_checkmark(st, visible) == <<[st EXCEPT !.show_minor_grid = ~@], visible>>

\* the assignments of on_grid_toggle_click: the view state and the
\* visibility of the checkmark after a click
grid_toggle(st, visible) ==
    LET current_state == st.show_minor_grid
    IN  <<[st EXCEPT !.show_minor_grid = ~current_state], ~current_state>>

on_grid_toggle_click ==
    /\ mounted
    /\ state' = grid_toggle(state, checkmark_visible)[1]
    /\ checkmark_visible' = grid_toggle(state, checkmark_visible)[2]
    /\ redraw(state', FALSE)
    /\ last' = "grid_toggle"
    /\ UNCHANGED <<is_dragging, mounted, window, rows, call>>

----------------------------------------------------------------------------
(* GraphingApp: the function panel *)

Contains(seq, x) == \E i \in 1..Len(seq) : seq[i] = x

NoDuplicates(seq) == \A i, j \in 1..Len(seq) : seq[i] = seq[j] => i = j

RemoveAt(seq, i) == SubSeq(seq, 1, i - 1) \o SubSeq(seq, i + 1, Len(seq))

\* list.remove(x): drops the first element equal to x
ListRemove(seq, x) ==
    RemoveAt(seq, CHOOSE i \in 1..Len(seq) :
                      seq[i] = x /\ \A j \in 1..(i - 1) : seq[j] # x)

\* an apply that appends without looking
apply_function_always_appends(st, expr) ==
    [st EXCEPT !.expressions = Append(@, expr)]

\* on_apply_function: the expressions after a row submits expr
apply_function(st, expr) ==
    IF Contains(st.expressions, expr) THEN st
    ELSE [st EXCEPT !.expressions = Append(@, expr)]

\* a remove that drops the newest expression whatever the row holds
remove_function_drops_last(st, expr) ==
    IF st.expressions # <<>>
    THEN [st EXCEPT !.expressions = SubSeq(@, 1, Len(@) - 1)]
    ELSE st

\* on_remove_function: the expressions after a row holding expr is removed
remove_function(st, expr) ==
    IF Contains(st.expressions, expr)
    THEN [st EXCEPT !.expressions = ListRemove(@, expr)]
    ELSE st

\* a new row: an empty text field that has submitted nothing
create_function_item == [text |-> "", submitted |-> {}]

on_add_function ==
    /\ mounted
    /\ Len(rows) < MaxRows
    /\ rows' = Append(rows, create_function_item)
    /\ last' = "add_function"
    /\ call' = [fn |-> "on_add_function"]
    /\ UNCHANGED <<state, is_dragging, first_draw, shapes, console, mounted, window,
                   checkmark_visible>>

\* the user edits the text of row i
on_text_change(i, text) ==
    /\ mounted
    /\ rows[i].text # text
    /\ rows' = [rows EXCEPT ![i].text = text]
    /\ last' = "text_change"
    /\ call' = [fn |-> "on_text_change"]
    /\ UNCHANGED <<state, is_dragging, first_draw, shapes, console, mounted, window,
                   checkmark_visible>>

on_apply_function(i) ==
    LET expr == rows[i].text
    IN  /\ mounted
        /\ IF expr # ""
           THEN /\ state' = apply_function(state, expr)
                /\ redraw(state', FALSE)
                /\ rows' = [rows EXCEPT ![i].submitted = @ \cup {expr}]
           ELSE UNCHANGED <<state, first_draw, shapes, console, rows>>
        /\ last' = "apply_function"
        /\ call' = [fn |-> "on_apply_function", expr |-> expr,
                    was_present |-> Contains(state.expressions, expr)]
        /\ UNCHANGED <<is_dragging, mounted, window, checkmark_visible>>

on_remove_function(i) ==
    LET expr == rows[i].text
    IN  /\ mounted
        /\ IF expr # ""
           THEN /\ state' = remove_function(state, expr)
                /\ redraw(state', FALSE)
           ELSE UNCHANGED <<state, first_draw, shapes, console>>
        /\ rows' = RemoveAt(rows, i)
        /\ last' = "remove_function"
        /\ call' = [fn |-> "on_remove_function", expr |-> expr,
                    was_present |-> Contains(state.expressions, expr),
                    before |-> state.expressions, row |-> rows[i]]
        /\ UNCHANGED <<is_dragging, mounted, window, checkmark_visible>>

----------------------------------------------------------------------------
(* Specification of the view: every handler of the coordinate system *)

Init ==
    /\ state = GraphState
    /\ is_dragging = FALSE
    /\ first_draw = TRUE
    /\ shapes = <<>>
    /\ console = "none"
    /\ mounted = FALSE
    /\ window = <<WindowWidth, WindowHeight>>
    /\ rows = <<>>
    /\ checkmark_visible = TRUE
    /\ last = "init"
    /\ call = [fn |-> "none"]

NextView ==
    \/ did_mount
    \/ handle_pan_start
    \/ \E d \in DragDeltas : handle_pan_update(d[1], d[2])
    \/ handle_pan_end
    \/ \E d \in ScrollDeltas : handle_scroll(d)
    \/ pan_up
    \/ pan_down
    \/ pan_left
    \/ pan_right
    \/ zoom_in
    \/ zoom_out
    \/ reset_view
    \/ on_grid_toggle_click

SpecView == Init /\ [][NextView]_vars

----------------------------------------------------------------------------
(* Specification of panning: drags that move by fractions of a pixel *)

NextPan ==
    \/ did_mount
    \/ handle_pan_start
    \/ \E d \in FineDragDeltas : handle_pan_update(d[1], d[2])
    \/ handle_pan_end
    \/ pan_up
    \/ pan_down
    \/ pan_left
    \/ pan_right
    \/ reset_view

SpecPan == Init /\ [][NextPan]_vars

----------------------------------------------------------------------------
(* Specification of the function panel *)

NextPanel ==
    \/ did_mount
    \/ on_add_function
    \/ \E i \in 1..Len(rows), text \in Texts : on_text_change(i, text)
    \/ \E i \in 1..Len(rows) : on_apply_function(i)
    \/ \E i \in 1..Len(rows) : on_remove_function(i)

SpecPanel == Init /\ [][NextPanel]_vars

----------------------------------------------------------------------------
(* Specification of FunctionGraph: evaluate and create_path applied to inputs *)

Constructed ==
    /\ state = GraphState
    /\ is_dragging = FALSE
    /\ first_draw = TRUE
    /\ shapes = <<>>
    /\ console = "none"
    /\ mounted = FALSE
    /\ window = <<WindowWidth, WindowHeight>>
    /\ rows = <<>>
    /\ checkmark_visible = TRUE
    /\ last = "init"

\* the x values of a call of create_path: -1, 0, 1, ...
PathXs(n) == [i \in 1..n |-> FromInt(i - 2)]

InitEval ==
    /\ Constructed
    /\ call \in
         {[fn |-> "evaluate_args", expr |-> e, x_vals |-> xs] :
              e \in Expressions, xs \in SeqsUpTo(SampleValues, MaxSamples)}
         \cup
         {[fn |-> "create_path_args", x_vals |-> PathXs(Len(ys)), y_vals |-> ys] :
              ys \in SeqsUpTo({NaN, 0, FromInt(1), Inf}, MaxSamples)}

call_evaluate ==
    /\ call.fn = "evaluate_args"
    /\ call' = [fn |-> "evaluate", expr |-> call.expr, x_vals |-> call.x_vals,
                y_vals |-> evaluate(call.expr, call.x_vals)]
    /\ last' = "evaluate"
    /\ UNCHANGED <<state, is_dragging, first_draw, shapes, console, mounted, window,
                   checkmark_visible, rows>>

call_create_path ==
    /\ call.fn = "create_path_args"
    /\ call' = [fn |-> "create_path", x_vals |-> call.x_vals, y_vals |-> call.y_vals,
                path |-> create_path(state, window, call.x_vals, call.y_vals)]
    /\ last' = "create_path"
    /\ UNCHANGED <<state, is_dragging, first_draw, shapes, console, mounted, window,
                   checkmark_visible, rows>>

NextEval ==
    \/ call_evaluate
    \/ call_create_path

SpecEval == InitEval /\ [][NextEval]_vars

----------------------------------------------------------------------------
(* Specification of to_screen applied to view states, viewports and points *)

ViewStates ==
    {[GraphState EXCEPT !.scale = sc, !.offset_x = ox, !.offset_y = oy] :
         sc \in SampleScales, ox \in SampleOffsets, oy \in SampleOffsets}

InitScreen ==
    /\ state \in ViewStates
    /\ window \in Viewports
    /\ is_dragging = FALSE
    /\ first_draw = TRUE
    /\ shapes = <<>>
    /\ console = "none"
    /\ mounted = FALSE
    /\ rows = <<>>
    /\ checkmark_visible = TRUE
    /\ last = "init"
    /\ call \in {[fn |-> "to_screen_args", x |-> x, y |-> y] :
                     x \in SamplePoints, y \in SamplePoints}

call_to_screen ==
    /\ call.fn = "to_screen_args"
    /\ LET p == to_screen(state, window, call.x, call.y)
       IN  call' = [fn |-> "to_screen", x |-> call.x, y |-> call.y,
                    sx |-> p[1], sy |-> p[2]]
    /\ last' = "to_screen"
    /\ UNCHANGED <<state, is_dragging, first_draw, shapes, console, mounted, window,
                   checkmark_visible, rows>>

NextScreen == call_to_screen

SpecScreen == InitScreen /\ [][NextScreen]_vars

----------------------------------------------------------------------------
(* Specification of the grid block of _draw_graph applied to view states *)

GridStates ==
    {[vs EXCEPT !.show_minor_grid = m] : vs \in ViewStates, m \in BOOLEAN}

InitGrid ==
    /\ state \in GridStates
    /\ window \in Viewports
    /\ is_dragging = FALSE
    /\ first_draw = TRUE
    /\ shapes = <<>>
    /\ console = "none"
    /\ mounted = FALSE
    /\ rows = <<>>
    /\ checkmark_visible = state.show_minor_grid
    /\ last = "init"
    /\ call = [fn |-> "grid_lines_args"]

\* the grid block; call records the math coordinates of the lines it appends
call_grid_lines ==
    /\ call.fn = "grid_lines_args"
    /\ LET v == visible_range(state, window)
           p == padded_range(v)
           minor(lo, hi) == IF state.show_minor_grid THEN minor_coords(lo, hi) ELSE <<>>
       IN  /\ shapes' = grid_lines(state, window, v)
           /\ call' = [fn |-> "grid_lines", padded |-> p,
                       major_x |-> visible_xs(state, window,
                                              major_coords(p.x_min, p.x_max)),
                       major_y |-> visible_ys(state, window,
                                              major_coords(p.y_min, p.y_max)),
                       minor_x |-> visible_xs(state, window, minor(p.x_min, p.x_max)),
                       minor_y |-> visible_ys(state, window, minor(p.y_min, p.y_max))]
    /\ last' = "grid_lines"
    /\ UNCHANGED <<state, is_dragging, first_draw, console, mounted, window,
                   checkmark_visible, rows>>

NextGrid == call_grid_lines

SpecGrid == InitGrid /\ [][NextGrid]_vars

----------------------------------------------------------------------------
(* Specification of the visible range of _draw_graph and to_screen at its
   corners *)

RangeScales == SampleScales \cup {FromInt(2), FromInt(16)}

RangeStates ==
    {[GraphState EXCEPT !.scale = sc, !.offset_x = ox, !.offset_y = oy] :
         sc \in RangeScales, ox \in SampleOffsets, oy \in SampleOffsets}

InitRange ==
    /\ state \in RangeStates
    /\ window \in Viewports
    /\ is_dragging = FALSE
    /\ first_draw = TRUE
    /\ shapes = <<>>
    /\ console = "none"
    /\ mounted = FALSE
    /\ rows = <<>>
    /\ checkmark_visible = TRUE
    /\ last = "init"
    /\ call = [fn |-> "visible_range_args"]

\* the visible range, and to_screen at its top left and bottom right corners
call_visible_range ==
    /\ call.fn = "visible_range_args"
    /\ LET v == visible_range(state, window)
       IN  call' = [fn |-> "visible_range", v |-> v,
                    top_left |-> to_screen(state, window, v.x_min, v.y_max),
                    bottom_right |-> to_screen(state, window, v.x_max, v.y_min)]
    /\ last' = "visible_range"
    /\ UNCHANGED <<state, is_dragging, first_draw, shapes, console, mounted, window,
                   checkmark_visible, rows>>

NextRange == call_visible_range

SpecRange == InitRange /\ [][NextRange]_vars

----------------------------------------------------------------------------
(* Specification of the label interval applied to every positive scale *)

PositiveFloats ==
    {m * Pow2(e) : m \in 1..(Pow2(MantBits) - 1), e \in 0..ExpRange} \cup {Inf}

InitLabel ==
    /\ state \in {[GraphState EXCEPT !.scale = sc] : sc \in PositiveFloats}
    /\ is_dragging = FALSE
    /\ first_draw = TRUE
    /\ shapes = <<>>
    /\ console = "none"
    /\ mounted = FALSE
    /\ window = <<WindowWidth, WindowHeight>>
    /\ rows = <<>>
    /\ checkmark_visible = TRUE
    /\ last = "init"
    /\ call = [fn |-> "label_interval_args"]

call_label_interval ==
    /\ call.fn = "label_interval_args"
    /\ LET r == label_interval_of(state)
       IN  call' = [fn |-> "label_interval", raised |-> r.raised,
                    label_interval |-> r.label_interval]
    /\ last' = "label_interval"
    /\ UNCHANGED <<state, is_dragging, first_draw, shapes, console, mounted, window,
                   checkmark_visible, rows>>

NextLabel == call_label_interval

SpecLabel == InitLabel /\ [][NextLabel]_vars

----------------------------------------------------------------------------
(* Claims *)

\* C1: after any sequence of submit and remove events of the function panel,
\* starting from expressions = ["x**2"], no string occurs twice in
\* state.expressions, and submitting a string that is already present leaves
\* the list as it is (same members, same order).
C1_NoDuplicateExpressions ==
    [][/\ NoDuplicates(state'.expressions)
       /\ (last' = "apply_function" /\ Contains(state.expressions, call'.expr)
              => state'.expressions = state.expressions)]_vars

\* a row has submitted a string that was already in a list of two expressions
C1_Witness ==
    /\ last = "apply_function"
    /\ call.expr # ""
    /\ call.was_present
    /\ Len(state.expressions) >= 2

\* C2: reset_view yields scale = 50 and zero offsets from every view state,
\* leaves expressions and show_minor_grid as they were, and a second
\* reset_view right after the first leaves the view state as it is.
C2_ResetRestoresDefaults ==
    [][last' = "reset_view" =>
          /\ state'.scale = FromInt(50)
          /\ state'.offset_x = 0
          /\ state'.offset_y = 0
          /\ state'.expressions = state.expressions
          /\ state'.show_minor_grid = state.show_minor_grid
          /\ (last = "reset_view" => state' = state)]_vars

\* a reset has run on a view that had been zoomed or panned and whose grid
\* toggle is off
C2_Witness ==
    /\ last = "reset_view"
    /\ ~state.show_minor_grid
    /\ console = "printed"

\* C3: in every state reachable by zoom, scroll, pan, drag and reset events
\* the scale is a positive number (never zero, negative or NaN), so dividing
\* by it is defined.
C3_ScalePositive == FLt(0, state.scale)

\* zoom_out has run at the smallest scale the arithmetic can hold: the scale
\* is a finite fixed point of the multiplication by 0.8
C3_Witness ==
    /\ last = "zoom_out"
    /\ IsFinite(state.scale)
    /\ FMul(state.scale, ZoomOutFactor) = state.scale

\* the deltas a pan can apply: a drag update, or a 30-pixel button
PanDeltas ==
    FineDragDeltas \cup DragDeltas
        \cup {<<PanStepF, 0>>, <<-PanStepF, 0>>, <<0, PanStepF>>, <<0, -PanStepF>>}

\* the offsets after panning st by d and then by -d
PanThereAndBack(st, d) ==
    LET back == panBy(panBy(st, d[1], d[2]), FNeg(d[1]), FNeg(d[2]))
    IN  <<back.offset_x, back.offset_y>>

\* both additions of a pan by d are exact: the sums need no rounding
PanIsExact(st, d) ==
    /\ FAdd(st.offset_x, d[1]) = st.offset_x + d[1]
    /\ FAdd(st.offset_y, d[2]) = st.offset_y + d[2]

\* C10 as stated: from every view state, panning by (dx, dy) and then by
\* (-dx, -dy) returns offset_x and offset_y to their original values.
C10_PanInverse_Original ==
    \A d \in PanDeltas : PanThereAndBack(state, d) = <<state.offset_x, state.offset_y>>

\* C10 (amended): from every view state, panning by (dx, dy) and then by
\* (-dx, -dy) returns the offsets to their original values whenever the two
\* additions of the first pan are exact in floating point; so do pan_left
\* followed by pan_right and pan_up followed by pan_down.
C10_PanInverse ==
    \A d \in PanDeltas :
        PanIsExact(state, d) =>
            PanThereAndBack(state, d) = <<state.offset_x, state.offset_y>>

\* a drag has moved a view, already panned by a button, by a fraction of a
\* pixel, and a further drag step from there is exact
C10_Witness ==
    /\ last = "pan_update"
    /\ state.offset_x % One # 0
    /\ state.offset_y # 0
    /\ PanIsExact(state, <<One \div 4, 0>>)

\* the samples of the example of C6
SqrtSamples == <<FromInt(-1), 0, FromInt(4)>>

\* C4: create_path breaks the polyline at undefined samples: an element is
\* a MoveTo exactly when its sample starts a run of defined samples (it is
\* the first sample or follows an undefined one), so that no LineTo joins
\* two samples that have an undefined sample between them.
C4_PathBreaksAtUndefined ==
    call.fn = "create_path" =>
        \A j \in 1..Len(call.path) :
            LET i == call.path[j].i
            IN  (call.path[j].t = "MoveTo") <=> (i = 1 \/ IsNaN(call.y_vals[i - 1]))

C6_SqrtExample ==
    (call.fn = "evaluate" /\ call.expr = "sqrt(x)" /\ call.x_vals = SqrtSamples)
        => call.y_vals = <<NaN, 0, FromInt(2)>>

\* the samples a full render of the state evaluates every expression at
RenderSamples ==
    LET v == visible_range(state, window)
    IN  linspace(v.x_min, v.x_max, NumSamples)

\* the expression raises at every sample of the render
FailsAtEverySample(expr) ==
    \A k \in 1..NumSamples : PyEval(expr, RenderSamples[k]).raised

\* the expression has a sample at which it is defined
HasDefinedSample(expr) ==
    \E k \in 1..NumSamples : ~IsNaN(evaluate(expr, <<RenderSamples[k]>>)[1])

\* the curves on the canvas that are drawn in the colour of expression i
CurvesOf(i) ==
    {k \in 1..Len(shapes) :
        /\ shapes[k].shape = "Path" /\ shapes[k].paint = "curve_paint"
        /\ shapes[k].color = (i - 1) % NumColors}

\* the grid, axis, label and tick primitives of a render of the state
Decorations ==
    LET v == visible_range(state, window)
    IN  grid_lines(state, window, v) \o axes(state, window)
        \o ticks(state, window, v, label_interval_of(state).label_interval)

\* C7: when the expressions list contains an expression that fails at every
\* sample, a full render still returns all grid, axis, label and tick
\* primitives, no curve for the failing expression, and the curve of every
\* other expression that has a defined sample.
C7_FailingExpressionStillRenders ==
    (/\ last \in {"apply_function", "remove_function"}
     /\ call.expr # ""
     /\ \E i \in 1..Len(state.expressions) : FailsAtEverySample(state.expressions[i]))
    =>
        /\ console = "drawn"
        /\ Len(shapes) >= Len(Decorations)
        /\ SubSeq(shapes, 1, Len(Decorations)) = Decorations
        /\ \A i \in 1..Len(state.expressions) :
               IF FailsAtEverySample(state.expressions[i])
               THEN CurvesOf(i) = {}
               ELSE HasDefinedSample(state.expressions[i]) => CurvesOf(i) # {}

\* the algebraic inverse of to_screen named by C8
to_math(st, win, sx, sy) ==
    <<FDiv(FSub(FSub(sx, IntDiv(win[1], 2)), st.offset_x), st.scale),
      FDiv(FSub(FAdd(IntDiv(win[2], 2), st.offset_y), sy), st.scale)>>

ExactAdd(a, b) == IsFinite(a) /\ IsFinite(b) /\ FAdd(a, b) = a + b
ExactSub(a, b) == ExactAdd(a, FNeg(b))
ExactMul(a, b) == IsFinite(a) /\ IsFinite(b) /\ FMul(a, b) * One = a * b
ExactDiv(a, b) == IsFinite(a) /\ IsFinite(b) /\ b # 0 /\ FDiv(a, b) * b = a * One

\* no operation of to_screen at (x, y), or of its inverse on the result, rounds
RoundTripIsExact(st, win, x, y) ==
    LET hw == IntDiv(win[1], 2)
        hh == IntDiv(win[2], 2)
        p == to_screen(st, win, x, y)
    IN  /\ ExactAdd(hw, st.offset_x) /\ ExactMul(x, st.scale)
        /\ ExactAdd(FAdd(hw, st.offset_x), FMul(x, st.scale))
        /\ ExactAdd(hh, st.offset_y) /\ ExactMul(y, st.scale)
        /\ ExactSub(FAdd(hh, st.offset_y), FMul(y, st.scale))
        /\ ExactSub(p[1], hw) /\ ExactSub(FSub(p[1], hw), st.offset_x)
        /\ ExactDiv(FSub(FSub(p[1], hw), st.offset_x), st.scale)
        /\ ExactSub(FAdd(hh, st.offset_y), p[2])
        /\ ExactDiv(FSub(FAdd(hh, st.offset_y), p[2]), st.scale)

\* the formula of C8 for the screen point of a call of to_screen
ToScreenFormula ==
    /\ call.sx = FAdd(FAdd(IntDiv(window[1], 2), state.offset_x),
                      FMul(call.x, state.scale))
    /\ call.sy = FSub(FAdd(IntDiv(window[2], 2), state.offset_y),
                      FMul(call.y, state.scale))

C9_LabelInterval ==
    call.fn = "label_interval" =>
        /\ ~call.raised
        /\ call.label_interval \in LabelIntervals(call.label_interval)
        /\ FLe(FromInt(target_label_spacing),
               FMul(FromInt(call.label_interval), state.scale))
        /\ \A i \in LabelIntervals(call.label_interval - 1) :
               FLt(FMul(FromInt(i), state.scale), FromInt(target_label_spacing))
        /\ state.scale = FromInt(50) => call.label_interval = 2
        /\ state.scale = FromInt(5) => call.label_interval = 20

\* the elements of seq other than x, in their order
Without(seq, x) == SelectSeq(seq, LAMBDA y : y # x)

\* the set of the elements of seq
Members(seq) == {seq[i] : i \in 1..Len(seq)}

\* C11: removing a string that is absent from expressions leaves the list
\* unchanged; removing a string that is present and then adding the same
\* string again yields a list with the same members in which that string is
\* the last element and the other elements keep their relative order.
C11_RemoveThenAdd ==
    [][(last' = "remove_function" /\ call'.expr # "") =>
          LET expr == call'.expr
              old == state.expressions
              back == apply_function(state', expr).expressions
          IN  IF ~Contains(old, expr)
              THEN state'.expressions = old
              ELSE /\ ~Contains(state'.expressions, expr)
                   /\ Members(back) = Members(old)
                   /\ Len(back) = Len(old)
                   /\ back[Len(back)] = expr
                   /\ Without(back, expr) = Without(old, expr)]_vars

\* a row removed the middle one of three expressions
C11_Witness ==
    /\ last = "remove_function"
    /\ call.was_present
    /\ Len(call.before) = 3
    /\ call.before[2] = call.expr
    /\ state.expressions = <<call.before[1], call.before[3]>>

\* the handlers of the view whose last statement is a call of redraw
RedrawHandlers ==
    {"did_mount", "pan_update", "pan_end", "scroll", "pan_up", "pan_down", "pan_left",
     "pan_right", "zoom_in", "zoom_out", "reset_view", "grid_toggle"}

\* the handlers that do nothing but call redraw
RedrawOnlyHandlers == {"did_mount", "pan_end"}

\* C12: redraw never propagates an exception to the handler that called
\* it: a failure is swallowed, the first one silently and later ones only
\* reported, the view state is unchanged by the failing call, and a redraw
\* that comes after the first failure proceeds normally.
C12_RedrawSwallowsFailures ==
    [][last' \in RedrawHandlers =>
          /\ console' \in {"drawn", "silent", "printed"}
          /\ console' = "silent" => first_draw
          /\ console' = "printed" => ~first_draw
          /\ (console' # "drawn" /\ last' \in RedrawOnlyHandlers) => state' = state
          /\ ~first_draw => (console' = "drawn" /\ first_draw' = first_draw)]_vars

\* C13: with the minor grid enabled, minor lines are drawn only at odd
\* integer coordinates and major lines at the even integers of the padded
\* visible range, so no coordinate receives both a major and a minor line.
C13_GridParity ==
    (last = "grid_lines" /\ state.show_minor_grid) =>
        /\ \A k \in 1..Len(call.minor_x) : call.minor_x[k] % 2 = 1
        /\ \A k \in 1..Len(call.minor_y) : call.minor_y[k] % 2 = 1
        /\ \A k \in 1..Len(call.major_x) : call.major_x[k] % 2 = 0
        /\ \A k \in 1..Len(call.major_y) : call.major_y[k] % 2 = 0
        /\ Members(call.major_x) \cap Members(call.minor_x) = {}
        /\ Members(call.major_y) \cap Members(call.minor_y) = {}

\* the function curves among the primitives of a canvas
CurvePaths(canvas) ==
    {k \in 1..Len(canvas) : canvas[k].shape = "Path" /\ canvas[k].paint = "curve_paint"}

\* C14: in a drag (pan_start, pan_update*, pan_end) every update adds its
\* delta to the offsets and renders with the curves skipped, and pan_end
\* runs one full render without changing the offsets, so that after pan_end
\* the canvas shows the function curves again.
C14_DragSequence ==
    [][/\ last' = "pan_update" =>
              /\ is_dragging /\ is_dragging'
              /\ \E d \in DragDeltas : state' = panBy(state, d[1], d[2])
              /\ console' = "drawn"
              /\ CurvePaths(shapes') = {}
       /\ last' = "pan_end" =>
              /\ is_dragging /\ ~is_dragging'
              /\ state' = state
              /\ console' = "drawn"
              /\ CurvePaths(shapes') # {}]_vars

\* full is the sequence part followed by curve primitives only, and part
\* holds no curve primitive
DecorationsThenCurves(part, full) ==
    /\ CurvePaths(part) = {}
    /\ Len(part) <= Len(full)
    /\ SubSeq(full, 1, Len(part)) = part
    /\ CurvePaths(full) = (Len(part) + 1)..Len(full)

\* C15: for every view state and viewport, a render with skip_function =
\* true returns exactly the grid, axis, arrowhead, label and tick primitives
\* that a render with skip_function = false returns, in the same order, and
\* no curve primitive; the full render is that sequence followed by the
\* curve primitives.
C15_SkipFunctionOmitsOnlyCurves ==
    LET fast == draw_graph(state, window, TRUE)
        full == draw_graph(state, window, FALSE)
    IN  /\ ~fast.raised
        /\ ~full.raised
        /\ DecorationsThenCurves(fast.shapes, full.shapes)

\* half of the extent n is a float, and so is n
ExactHalf(n) == IsFinite(IntDiv(n, 2)) /\ IntDiv(n, 2) * 2 = IntQ(n) /\ FromInt(n) = IntQ(n)

\* no operation rounds in the computation of the left edge and of its
\* screen x: the sum and the quotient are exact (the product then is)
LeftIsExact(st, win) ==
    /\ ExactAdd(IntDiv(win[1], 2), st.offset_x)
    /\ ExactDiv(FNeg(FAdd(IntDiv(win[1], 2), st.offset_x)), st.scale)
TopIsExact(st, win) ==
    /\ ExactAdd(IntDiv(win[2], 2), st.offset_y)
    /\ ExactDiv(FAdd(IntDiv(win[2], 2), st.offset_y), st.scale)
RightIsExact(st, win) ==
    /\ ExactHalf(win[1])
    /\ ExactAdd(IntDiv(win[1], 2), st.offset_x)
    /\ ExactSub(IntDiv(win[1], 2), st.offset_x)
    /\ ExactDiv(FSub(IntDiv(win[1], 2), st.offset_x), st.scale)
BottomIsExact(st, win) ==
    /\ ExactHalf(win[2])
    /\ ExactAdd(IntDiv(win[2], 2), st.offset_y)
    /\ ExactSub(IntDiv(win[2], 2), st.offset_y)
    /\ ExactDiv(FNeg(FSub(IntDiv(win[2], 2), st.offset_y)), st.scale)

\* C16 as stated: for every view state with scale > 0 and every viewport,
\* to_screen maps (visible_x_min, visible_y_max) to (0, 0) and
\* (visible_x_max, visible_y_min) to (width, height).
C16_VisibleRangeInverse_Original ==
    (call.fn = "visible_range" /\ FLt(0, state.scale)) =>
        /\ call.top_left = <<0, 0>>
        /\ call.bottom_right = <<FromInt(window[1]), FromInt(window[2])>>

\* C16: for every view state with scale > 0 and every viewport, to_screen
\* maps the corner (visible_x_min, visible_y_max) to (0, 0) and the corner
\* (visible_x_max, visible_y_min) to (width, height), in every coordinate
\* whose computation rounds in no operation.
C16_VisibleRangeInverse ==
    (call.fn = "visible_range" /\ FLt(0, state.scale)) =>
        /\ LeftIsExact(state, window) => call.top_left[1] = 0
        /\ TopIsExact(state, window) => call.top_left[2] = 0
        /\ RightIsExact(state, window) => call.bottom_right[1] = FromInt(window[1])
        /\ BottomIsExact(state, window) => call.bottom_right[2] = FromInt(window[2])

\* a panned view whose four edges are computed without rounding
C16_Witness ==
    /\ call.fn = "visible_range"
    /\ state.offset_x # 0 /\ state.offset_y # 0
    /\ LeftIsExact(state, window) /\ TopIsExact(state, window)
    /\ RightIsExact(state, window) /\ BottomIsExact(state, window)
    /\ call.top_left = <<0, 0>>
    /\ call.bottom_right = <<FromInt(window[1]), FromInt(window[2])>>

ZoomHandlers == {"zoom_in", "zoom_out", "scroll"}
PanHandlers == {"pan_up", "pan_down", "pan_left", "pan_right", "pan_update"}

\* the fields of the view state other than scale, and other than the offsets
BesidesScale(st) == <<st.offset_x, st.offset_y, st.expressions, st.show_minor_grid>>
BesidesOffsets(st) == <<st.scale, st.expressions, st.show_minor_grid>>

\* the screen position of the math origin
OriginOnScreen(st) == to_screen(st, window, 0, 0)

\* C18 as stated: zoom_in, zoom_out and scroll change only scale, so that
\* the screen position of the math origin is fixed under zoom; the pan
\* buttons and drag updates change only the offsets.
C18_FrameOfZoomAndPan_Original ==
    [][/\ last' \in ZoomHandlers =>
              /\ BesidesScale(state') = BesidesScale(state)
              /\ OriginOnScreen(state') = OriginOnScreen(state)
       /\ last' \in PanHandlers => BesidesOffsets(state') = BesidesOffsets(state)]_vars

\* C18: zoom_in, zoom_out and scroll change only scale and leave offset_x,
\* offset_y, expressions and show_minor_grid as they are, so that the screen
\* position of the math origin is the same before and after a zoom between
\* finite scales; pan_up, pan_down, pan_left, pan_right and drag updates
\* change only the offsets and leave scale, expressions and show_minor_grid
\* as they are.
C18_FrameOfZoomAndPan ==
    [][/\ last' \in ZoomHandlers =>
              /\ BesidesScale(state') = BesidesScale(state)
              /\ (IsFinite(state.scale) /\ IsFinite(state'.scale))
                     => OriginOnScreen(state') = OriginOnScreen(state)
       /\ last' \in PanHandlers => BesidesOffsets(state') = BesidesOffsets(state)]_vars

\* a zoom has run on a panned view whose minor grid had been switched off
C18_Witness ==
    /\ last \in ZoomHandlers
    /\ state.offset_x # 0 /\ state.offset_y # 0
    /\ ~state.show_minor_grid
    /\ IsFinite(state.scale) /\ state.scale # DefaultScaleF

\* the texts shown by the rows of a list, and those its rows have submitted
ShownBy(list) == {list[j].text : j \in 1..Len(list)}
SubmittedBy(list) == UNION {list[j].submitted : j \in 1..Len(list)}

\* C19: after any sequence of function-panel events, every string in
\* state.expressions other than the default "x**2" is a text submitted by a
\* row that is still in the functions list; removing a row removes from
\* expressions what that row submitted, and never an expression that
\* another row still shows.
C19_ExpressionsBelongToRows ==
    [][/\ Members(state'.expressions) \subseteq {"x**2"} \cup SubmittedBy(rows')
       /\ last' = "remove_function" =>
              /\ Members(state'.expressions) \cap call'.row.submitted = {}
              /\ Members(state.expressions) \cap ShownBy(rows')
                     \subseteq Members(state'.expressions)]_vars

\* C20: after any sequence of Toggle Grid clicks, interleaved with any
\* other view events, the visibility of the menu checkmark equals
\* state.show_minor_grid; each click flips show_minor_grid (and the
\* checkmark), and two consecutive clicks restore both to their previous
\* values.
C20_CheckmarkFollowsGrid ==
    [][/\ checkmark_visible = state.show_minor_grid
       /\ checkmark_visible' = state'.show_minor_grid
       /\ last' = "grid_toggle" =>
              /\ state'.show_minor_grid = ~state.show_minor_grid
              /\ checkmark_visible' = ~checkmark_visible
              /\ LET second == grid_toggle(state', checkmark_visible')
                 IN  second = <<state, checkmark_visible>>]_vars

\* a click has switched the minor grid back on, in a view that has been
\* panned and zoomed
C20_Witness ==
    /\ last = "grid_toggle"
    /\ state.show_minor_grid /\ checkmark_visible
    /\ state.offset_x # 0 /\ state.scale # DefaultScaleF

\* the attributes of self.state that _draw_graph and _draw_functions read
RendererReads ==
    {"scale", "offset_x", "offset_y", "expressions", "show_minor_grid", "dark_mode"}

\* C21: a freshly constructed GraphState defines every field the renderer
\* reads (scale, offset_x, offset_y, expressions, show_minor_grid,
\* dark_mode), so the first redraw from the default state completes
\* _draw_graph without an exception and replaces canvas.shapes with a
\* non-empty list of primitives.
C21_FirstRedrawDraws ==
    last = "did_mount" =>
        /\ RendererReads \subseteq StateFields
        /\ ~draw_graph(state, window, FALSE).raised
        /\ console = "drawn"
        /\ shapes # <<>>

====
